---- MODULE Spec2Model ----
(***************************************************************************)
(* The three ThermostatEnvironment classes of thermostat-response:         *)
(*   V1  thermostat-environment.ipynb                                      *)
(*   V2  thermostatic-control-02-max-startups.ipynb                        *)
(*   V3  thermostatic-control-03-max-startups-explicit-state.ipynb         *)
(* One environment instance is constructed (Init picks the class) and is   *)
(* then driven by reset() and execute(action) calls.                       *)
(*                                                                         *)
(* Temperatures and rewards are fixed-point numbers: the real value x is   *)
(* the integer x * Scale.  exp(-1/tau) is the rational ExpNegInv/1000.     *)
(***************************************************************************)
EXTENDS Integers, Sequences, FiniteSets

VARIABLES
    variant,            \* which class the instance is: "V1", "V2" or "V3"
    current_temp,       \* self.current_temp, fixed point
    temp_is_array,      \* self.current_temp is a numpy array of shape (1,), not a float
    timestep,           \* self.timestep
    last_heater_state,  \* self.last_heater_state (V2, V3)
    off_to_on,          \* self.off_to_on (V2, V3)
    toggle_ons_left,    \* self.toggle_ons_left (V3)
    ret,                \* what the most recent call returned or raised
    states,             \* the driving loop's variable `states`
    terminal,           \* the driving loop's variable `terminal`
    overrun,            \* execute was called in this episode after terminal = True
    tracker,            \* the startups a bounded-window tracker would retain
    peer                \* a second instance of the same class, with its own loop

vars == <<variant, current_temp, temp_is_array, timestep, last_heater_state,
          off_to_on, toggle_ons_left, ret, states, terminal, overrun, tracker,
          peer>>

(***************************************************************************)
(* Bounds of the model.                                                    *)
(***************************************************************************)
\* grid units per 0.1 of temperature or reward
Tenth == 10
\* how many starting temperatures reset() samples from
NumInitTemps == 3
\* the agent heats only in the first ActiveLen steps of an episode and from
\* ActiveLen steps before the horizon on; in between it leaves the heater off
ActiveLen == 7
\* how many execute calls the driver makes beyond timestep max_timestep + 1
MaxOverrun == 2
\* how many execute calls an episode has when two instances are driven
MaxTwoSteps == 4

Scale == 10 * Tenth
Half == 5 * Tenth

Variants == {"V1", "V2", "V3"}
Actions == {0, 1}
InvalidActions == {-1, 2}
InitTemps == {(k * Scale) \div NumInitTemps : k \in 0 .. (NumInitTemps - 1)}

Abs(x) == IF x < 0 THEN -x ELSE x

(***************************************************************************)
(* Configuration set by __init__.                                          *)
(***************************************************************************)
tau == 3

\* exp(-1/tau) in thousandths
ExpNegInv(t) == CASE t = 3 -> 717

\* max_episode_timesteps()
max_episode_timesteps(v) ==
    CASE v = "V1" -> 5
      [] v = "V2" -> 200
      [] v = "V3" -> 100

max_toggle_ons(v) == 3

window_toggle_ons(v) ==
    CASE v = "V2" -> 20
      [] v = "V3" -> 10
      [] OTHER -> 0

\* exceed_toggle_on_reward, fixed point
exceed_toggle_on_reward(v) ==
    CASE v = "V2" -> -50 * Scale
      [] v = "V3" -> -10 * Scale
      [] OTHER -> 0

\* the reward inside the band: 0 in V1 and V2, 1.0 in V3
in_band_reward(v) == IF v = "V3" THEN Scale ELSE 0

(***************************************************************************)
(* Pure functions.                                                         *)
(***************************************************************************)
\* response with the sign of the decaying term reversed:
\* action - (current_temp - action) * exp(-1/tau)
response_overshoots(action, temp) ==
    LET target == action * Scale
        d == temp - target
        mag == (Abs(d) * ExpNegInv(tau)) \div 1000
    IN IF d >= 0 THEN target - mag ELSE target + mag

\* response with the factor 1 - exp(-1/tau) in place of exp(-1/tau)
response_complement(action, temp) ==
    LET target == action * Scale
        d == temp - target
        mag == (Abs(d) * (1000 - ExpNegInv(tau))) \div 1000
    IN IF d >= 0 THEN target + mag ELSE target - mag

\* response(action): action + (current_temp - action) * exp(-1/tau)
response(action, temp) ==
    LET target == action * Scale
        d == temp - target
        mag == (Abs(d) * ExpNegInv(tau)) \div 1000
    IN IF d >= 0 THEN target + mag ELSE target - mag

\* reward_compute with the outside-band value delta - 0.1
reward_compute_positive(v, temp) ==
    LET delta == Abs(temp - Half)
    IN IF delta < Tenth THEN in_band_reward(v) ELSE delta - Tenth

\* reward_compute without abs(): delta = current_temp - 0.5
reward_compute_signed(v, temp) ==
    LET delta == temp - Half
    IN IF delta < Tenth THEN in_band_reward(v) ELSE Tenth - delta

\* reward_compute() of V1 and V2
reward_compute(v, temp) ==
    LET delta == Abs(temp - Half)
    IN IF delta < Tenth THEN in_band_reward(v) ELSE Tenth - delta

\* reward_compute() of V3 raises TypeError on -delta[0] when current_temp is
\* a float (no reset() yet) and the temperature is outside the band
reward_raises(v, temp, is_array) ==
    v = "V3" /\ ~is_array /\ ~(Abs(temp - Half) < Tenth)

\* lstWindowEvents with an exclusive window: timestep - e < window_toggle_ons
lstWindowEvents_exclusive(hist, ts, window) ==
    SelectSeq(hist, LAMBDA e : ts - e < window)

\* lstWindowEvents = [e for e in off_to_on if timestep - e <= window_toggle_ons]
lstWindowEvents(hist, ts, window) ==
    SelectSeq(hist, LAMBDA e : ts - e <= window)

\* record_startup that records every change of the heater, on->off too
record_startup_on_change(hist, action, last, ts) ==
    IF action # last THEN Append(hist, ts) ELSE hist

\* record_startup that appends the timestep before its increment
record_startup_preincrement(hist, action, last, ts) ==
    IF action = 1 /\ last = 0 THEN Append(hist, ts - 1) ELSE hist

\* record_startup without the test of last_heater_state
record_startup_always(hist, action, last, ts) ==
    IF action = 1 THEN Append(hist, ts) ELSE hist

\* self.off_to_on after "if actions == 1 and last_heater_state == 0: off_to_on += [timestep]"
record_startup(hist, action, last, ts) ==
    IF action = 1 /\ last = 0 THEN Append(hist, ts) ELSE hist

(***************************************************************************)
(* Results of calls.                                                       *)
(***************************************************************************)
NoRet == [kind |-> "none", exc |-> "", obs_temp |-> 0, obs_left |-> 0,
          terminal |-> FALSE, reward |-> 0, count |-> 0]

Returned(kind, t, left, term, rew, cnt) ==
    [kind |-> kind, exc |-> "", obs_temp |-> t, obs_left |-> left,
     terminal |-> term, reward |-> rew, count |-> cnt]

Raised(exc, cnt) ==
    [kind |-> "raise", exc |-> exc, obs_temp |-> 0, obs_left |-> 0,
     terminal |-> FALSE, reward |-> 0, count |-> cnt]

\* the loop's `states` before any call has returned, and the observation
\* [temperature, toggle_ons_left] a call returned
NoStates == <<>>
StatesOf(r) == <<r.obs_temp, r.obs_left>>

(***************************************************************************)
(* Construction.                                                           *)
(***************************************************************************)
\* the attributes __init__ gives an instance of class v, and the state of the
\* loop that is going to drive it
Constructed(v) ==
    [current_temp |-> 0, temp_is_array |-> FALSE, timestep |-> 0,
     last_heater_state |-> 0, off_to_on |-> <<>>,
     toggle_ons_left |-> IF v = "V3" THEN max_toggle_ons(v) ELSE 0,
     ret |-> NoRet, states |-> NoStates, terminal |-> FALSE,
     overrun |-> FALSE, tracker |-> <<>>]

Init ==
    /\ variant \in Variants
    /\ current_temp = 0
    /\ temp_is_array = FALSE
    /\ timestep = 0
    /\ last_heater_state = 0
    /\ off_to_on = <<>>
    /\ toggle_ons_left = IF variant = "V3" THEN max_toggle_ons(variant) ELSE 0
    /\ ret = NoRet
    /\ states = NoStates
    /\ terminal = FALSE
    /\ overrun = FALSE
    /\ tracker = <<>>
    /\ peer = Constructed(variant)

(***************************************************************************)
(* The driver: the loop "reset(); while not terminal: execute(agent.act)". *)
(***************************************************************************)
\* the actions the agent picks from at pre-call timestep ts
AgentActs(v, ts) ==
    IF ts < ActiveLen \/ ts + ActiveLen > max_episode_timesteps(v)
    THEN Actions ELSE {0}

\* the driver makes another execute call
DriverCalls == timestep < max_episode_timesteps(variant) + 1 + MaxOverrun

(***************************************************************************)
(* reset().                                                                *)
(***************************************************************************)
\* V1: returns a random state and sets current_temp to 0.0
ResetV1(r) ==
    /\ variant = "V1"
    /\ current_temp' = 0
    /\ timestep' = 0
    /\ ret' = Returned("reset", r, 0, FALSE, 0, 0)
    /\ UNCHANGED <<temp_is_array, last_heater_state, off_to_on, toggle_ons_left>>

\* ResetV2 without "self.last_heater_state = 0"
ResetV2_keeps_heater(r) ==
    /\ variant = "V2"
    /\ timestep' = 0
    /\ off_to_on' = <<>>
    /\ current_temp' = r
    /\ temp_is_array' = TRUE
    /\ ret' = Returned("reset", current_temp', 0, FALSE, 0, 0)
    /\ UNCHANGED <<last_heater_state, toggle_ons_left>>

ResetV2(r) ==
    /\ variant = "V2"
    /\ timestep' = 0
    /\ last_heater_state' = 0
    /\ off_to_on' = <<>>
    /\ current_temp' = r
    /\ temp_is_array' = TRUE
    /\ ret' = Returned("reset", current_temp', 0, FALSE, 0, 0)
    /\ UNCHANGED toggle_ons_left

\* ResetV3 without "self.off_to_on = []"
ResetV3_keeps_history(r) ==
    /\ variant = "V3"
    /\ timestep' = 0
    /\ last_heater_state' = 0
    /\ toggle_ons_left' = max_toggle_ons(variant)
    /\ current_temp' = r
    /\ temp_is_array' = TRUE
    /\ ret' = Returned("reset", current_temp', toggle_ons_left', FALSE, 0, 0)
    /\ UNCHANGED off_to_on

\* ResetV3 without "self.toggle_ons_left = self.max_toggle_ons"
ResetV3_keeps_budget(r) ==
    /\ variant = "V3"
    /\ timestep' = 0
    /\ last_heater_state' = 0
    /\ off_to_on' = <<>>
    /\ current_temp' = r
    /\ temp_is_array' = TRUE
    /\ UNCHANGED toggle_ons_left
    /\ ret' = Returned("reset", current_temp', toggle_ons_left', FALSE, 0, 0)

ResetV3(r) ==
    /\ variant = "V3"
    /\ timestep' = 0
    /\ last_heater_state' = 0
    /\ off_to_on' = <<>>
    /\ toggle_ons_left' = max_toggle_ons(variant)
    /\ current_temp' = r
    /\ temp_is_array' = TRUE
    /\ ret' = Returned("reset", current_temp', toggle_ons_left', FALSE, 0, 0)

\* "states = environment.reset(); terminal = False"
Reset ==
    /\ \E r \in InitTemps : ResetV1(r) \/ ResetV2(r) \/ ResetV3(r)
    /\ states' = StatesOf(ret')
    /\ terminal' = FALSE
    /\ overrun' = FALSE
    /\ tracker' = <<>>
    /\ UNCHANGED <<variant, peer>>

(***************************************************************************)
(* execute(actions).                                                       *)
(***************************************************************************)
\* assert actions == 0 or actions == 1
valid_action(a) == a = 0 \/ a = 1

\* returns_V1 with the limit test "timestep == max_episode_timesteps() + 1"
returns_V1_once(ts, temp) ==
    Returned("execute", temp, 0, ts = max_episode_timesteps("V1") + 1,
             reward_compute("V1", temp), 0)

\* returns_V1 with the limit test "timestep >= max_episode_timesteps()"
returns_V1_early(ts, temp) ==
    Returned("execute", temp, 0, ts >= max_episode_timesteps("V1"),
             reward_compute("V1", temp), 0)

\* returns_V1 with the limit test "timestep > max_episode_timesteps() + 1"
returns_V1_late(ts, temp) ==
    Returned("execute", temp, 0, ts > max_episode_timesteps("V1") + 1,
             reward_compute("V1", temp), 0)

\* V1: the only way to go terminal is to exceed max_episode_timesteps
returns_V1(ts, temp) ==
    Returned("execute", temp, 0, ts > max_episode_timesteps("V1"),
             reward_compute("V1", temp), 0)

ExecuteV1(a) ==
    /\ variant = "V1"
    /\ valid_action(a)
    /\ timestep' = timestep + 1
    /\ current_temp' = response(a, current_temp)
    /\ ret' = returns_V1(timestep', current_temp')
    /\ UNCHANGED <<temp_is_array, last_heater_state, off_to_on, toggle_ons_left>>

\* returns_V2 with the timestep limit tested before the startup count
returns_V2_limit_first(cnt, ts, temp) ==
    IF ts > max_episode_timesteps("V2")
    THEN Returned("execute", temp, 0, TRUE, reward_compute("V2", temp), cnt)
    ELSE IF cnt > max_toggle_ons("V2")
    THEN Returned("execute", temp, 0, TRUE, exceed_toggle_on_reward("V2"), cnt)
    ELSE Returned("execute", temp, 0, FALSE, reward_compute("V2", temp), cnt)

\* returns_V2 with the cutoff test "len(lstWindowEvents) >= max_toggle_ons"
returns_V2_at_budget(cnt, ts, temp) ==
    IF cnt >= max_toggle_ons("V2")
    THEN Returned("execute", temp, 0, TRUE, exceed_toggle_on_reward("V2"), cnt)
    ELSE IF ts > max_episode_timesteps("V2")
    THEN Returned("execute", temp, 0, TRUE, reward_compute("V2", temp), cnt)
    ELSE Returned("execute", temp, 0, FALSE, reward_compute("V2", temp), cnt)

\* V2: the conditional returns
returns_V2(cnt, ts, temp) ==
    IF cnt > max_toggle_ons("V2")
    THEN Returned("execute", temp, 0, TRUE, exceed_toggle_on_reward("V2"), cnt)
    ELSE IF ts > max_episode_timesteps("V2")
    THEN Returned("execute", temp, 0, TRUE, reward_compute("V2", temp), cnt)
    ELSE Returned("execute", temp, 0, FALSE, reward_compute("V2", temp), cnt)

\* ExecuteV2 without "self.last_heater_state = actions"
ExecuteV2_forgets_heater(a) ==
    /\ variant = "V2"
    /\ valid_action(a)
    /\ timestep' = timestep + 1
    /\ current_temp' = response(a, current_temp)
    /\ off_to_on' = record_startup(off_to_on, a, last_heater_state, timestep')
    /\ LET cnt == Len(lstWindowEvents(off_to_on', timestep', window_toggle_ons("V2")))
       IN ret' = returns_V2(cnt, timestep', current_temp')
    /\ UNCHANGED <<temp_is_array, toggle_ons_left, last_heater_state>>

ExecuteV2(a) ==
    /\ variant = "V2"
    /\ valid_action(a)
    /\ timestep' = timestep + 1
    /\ current_temp' = response(a, current_temp)
    /\ off_to_on' = record_startup(off_to_on, a, last_heater_state, timestep')
    /\ last_heater_state' = a
    /\ LET cnt == Len(lstWindowEvents(off_to_on', timestep', window_toggle_ons("V2")))
       IN ret' = returns_V2(cnt, timestep', current_temp')
    /\ UNCHANGED <<temp_is_array, toggle_ons_left>>

\* returns_V3 with V2's policy: a negative budget ends the episode
returns_V3_terminates(left, cnt, ts, temp, is_array) ==
    IF left < 0
    THEN Returned("execute", temp, left, TRUE, exceed_toggle_on_reward("V3"), cnt)
    ELSE IF reward_raises("V3", temp, is_array)
    THEN Raised("TypeError", cnt)
    ELSE IF ts > max_episode_timesteps("V3")
    THEN Returned("execute", temp, left, TRUE, reward_compute("V3", temp), cnt)
    ELSE Returned("execute", temp, left, FALSE, reward_compute("V3", temp), cnt)

\* V3: the conditional returns; reward_compute() is only evaluated on the
\* last two, and raises when current_temp is a float outside the band
returns_V3(left, cnt, ts, temp, is_array) ==
    IF left < 0
    THEN Returned("execute", temp, left, FALSE, exceed_toggle_on_reward("V3"), cnt)
    ELSE IF reward_raises("V3", temp, is_array)
    THEN Raised("TypeError", cnt)
    ELSE IF ts > max_episode_timesteps("V3")
    THEN Returned("execute", temp, left, TRUE, reward_compute("V3", temp), cnt)
    ELSE Returned("execute", temp, left, FALSE, reward_compute("V3", temp), cnt)

\* ExecuteV3 with the window count taken before the startup is recorded
ExecuteV3_stale_count(a) ==
    /\ variant = "V3"
    /\ valid_action(a)
    /\ timestep' = timestep + 1
    /\ current_temp' = response(a, current_temp)
    /\ off_to_on' = record_startup(off_to_on, a, last_heater_state, timestep')
    /\ last_heater_state' = a
    /\ LET cnt == Len(lstWindowEvents(off_to_on, timestep', window_toggle_ons("V3")))
       IN /\ toggle_ons_left' = max_toggle_ons("V3") - cnt
          /\ ret' = returns_V3(toggle_ons_left', cnt, timestep', current_temp',
                               temp_is_array)
    /\ UNCHANGED temp_is_array

\* ExecuteV3 with the budget test and the observation placed before
\* "self.toggle_ons_left = ...", so that they read the budget of the last call
ExecuteV3_reads_old_budget(a) ==
    /\ variant = "V3"
    /\ valid_action(a)
    /\ timestep' = timestep + 1
    /\ current_temp' = response(a, current_temp)
    /\ off_to_on' = record_startup(off_to_on, a, last_heater_state, timestep')
    /\ last_heater_state' = a
    /\ LET cnt == Len(lstWindowEvents(off_to_on', timestep', window_toggle_ons("V3")))
       IN /\ toggle_ons_left' = max_toggle_ons("V3") - cnt
          /\ ret' = returns_V3(toggle_ons_left, cnt, timestep', current_temp',
                               temp_is_array)
    /\ UNCHANGED temp_is_array

ExecuteV3(a) ==
    /\ variant = "V3"
    /\ valid_action(a)
    /\ timestep' = timestep + 1
    /\ current_temp' = response(a, current_temp)
    /\ off_to_on' = record_startup(off_to_on, a, last_heater_state, timestep')
    /\ last_heater_state' = a
    /\ LET cnt == Len(lstWindowEvents(off_to_on', timestep', window_toggle_ons("V3")))
       IN /\ toggle_ons_left' = max_toggle_ons("V3") - cnt
          /\ ret' = returns_V3(toggle_ons_left', cnt, timestep', current_temp',
                               temp_is_array)
    /\ UNCHANGED temp_is_array

\* a tracker of startups that keeps only the entries of the current window:
\* it evicts what is older than window_toggle_ons steps, then records
bounded_tracker(trk, v, a, last, ts) ==
    IF v = "V1" THEN trk
    ELSE LET kept == SelectSeq(trk, LAMBDA e : ts - e <= window_toggle_ons(v))
         IN IF a = 1 /\ last = 0 THEN Append(kept, ts) ELSE kept

\* Execute with off_to_on a list of the class, which "+=" changes in place
\* for every instance
Execute_shared_history ==
    /\ DriverCalls
    /\ \E a \in AgentActs(variant, timestep) :
          /\ ExecuteV1(a) \/ ExecuteV2(a) \/ ExecuteV3(a)
          /\ tracker' = bounded_tracker(tracker, variant, a, last_heater_state,
                                        timestep')
    /\ states' = IF ret'.kind = "execute" THEN StatesOf(ret') ELSE states
    /\ terminal' = IF ret'.kind = "execute" THEN ret'.terminal ELSE terminal
    /\ overrun' = (overrun \/ terminal)
    /\ peer' = [peer EXCEPT !.off_to_on = off_to_on']
    /\ UNCHANGED variant

\* "states, terminal, reward = environment.execute(actions=actions)":
\* the assignment does not happen when execute raises
Execute ==
    /\ DriverCalls
    /\ \E a \in AgentActs(variant, timestep) :
          /\ ExecuteV1(a) \/ ExecuteV2(a) \/ ExecuteV3(a)
          /\ tracker' = bounded_tracker(tracker, variant, a, last_heater_state,
                                        timestep')
    /\ states' = IF ret'.kind = "execute" THEN StatesOf(ret') ELSE states
    /\ terminal' = IF ret'.kind = "execute" THEN ret'.terminal ELSE terminal
    /\ overrun' = (overrun \/ terminal)
    /\ UNCHANGED <<variant, peer>>

\* ExecuteInvalid with the assertion placed after "self.timestep += 1"
ExecuteInvalid_after_increment ==
    /\ \E a \in InvalidActions : ~valid_action(a)
    /\ timestep' = timestep + 1
    /\ ret' = Raised("AssertionError", 0)
    /\ UNCHANGED <<variant, current_temp, temp_is_array, last_heater_state,
                   off_to_on, toggle_ons_left, states, terminal, overrun,
                   tracker, peer>>

\* an action outside {0, 1}: the assertion fails before any assignment
ExecuteInvalid ==
    /\ \E a \in InvalidActions : ~valid_action(a)
    /\ ret' = Raised("AssertionError", 0)
    /\ UNCHANGED <<variant, current_temp, temp_is_array, timestep,
                   last_heater_state, off_to_on, toggle_ons_left, states,
                   terminal, overrun, tracker, peer>>

Next == Reset \/ Execute \/ ExecuteInvalid

Spec == Init /\ [][Next]_vars

(***************************************************************************)
(* Two instances.  Each is constructed by its own __init__ call and driven *)
(* by its own loop; the calls on the two interleave.  The variables above  *)
(* hold the instance that is being called, peer holds the other one.       *)
(***************************************************************************)
\* the attributes of the instance being called, and its loop's state
Self ==
    [current_temp |-> current_temp, temp_is_array |-> temp_is_array,
     timestep |-> timestep, last_heater_state |-> last_heater_state,
     off_to_on |-> off_to_on, toggle_ons_left |-> toggle_ons_left,
     ret |-> ret, states |-> states, terminal |-> terminal,
     overrun |-> overrun, tracker |-> tracker]

\* the next call is on the other instance
Switch ==
    /\ peer' = Self
    /\ current_temp' = peer.current_temp
    /\ temp_is_array' = peer.temp_is_array
    /\ timestep' = peer.timestep
    /\ last_heater_state' = peer.last_heater_state
    /\ off_to_on' = peer.off_to_on
    /\ toggle_ons_left' = peer.toggle_ons_left
    /\ ret' = peer.ret
    /\ states' = peer.states
    /\ terminal' = peer.terminal
    /\ overrun' = peer.overrun
    /\ tracker' = peer.tracker
    /\ UNCHANGED variant

\* the loops stop their episodes after MaxTwoSteps execute calls
ShortEpisode == timestep < MaxTwoSteps

NextTwo ==
    \/ Switch
    \/ Reset
    \/ (ShortEpisode /\ Execute)
    \/ ExecuteInvalid

SpecTwo == Init /\ [][NextTwo]_vars

(***************************************************************************)
(* The methods that only read: states(), actions(),                        *)
(* max_episode_timesteps(), and reward_compute() and response(action)      *)
(* called on their own.  None of them has an assignment in its body.       *)
(***************************************************************************)
Methods ==
    {"states", "actions", "max_episode_timesteps", "reward_compute", "response"}

\* what method m returns; a is the argument of response
QueryValue(m, a) ==
    CASE m = "states" -> (IF variant = "V3" THEN 2 ELSE 1)
      [] m = "actions" -> 2
      [] m = "max_episode_timesteps" -> max_episode_timesteps(variant)
      [] m = "reward_compute" -> reward_compute(variant, current_temp)
      [] m = "response" -> response(a, current_temp)

\* a call of one of them; reward_compute() raises where it does in execute
Query ==
    /\ \E m \in Methods, a \in Actions :
          ret' = IF m = "reward_compute"
                     /\ reward_raises(variant, current_temp, temp_is_array)
                 THEN [Raised("TypeError", 0) EXCEPT !.kind = "query_raise"]
                 ELSE Returned("query", QueryValue(m, a), 0, FALSE, 0, 0)
    /\ UNCHANGED <<variant, current_temp, temp_is_array, timestep,
                   last_heater_state, off_to_on, toggle_ons_left, states,
                   terminal, overrun, tracker, peer>>

NextFrame ==
    \/ Reset
    \/ (ShortEpisode /\ Execute)
    \/ ExecuteInvalid
    \/ Query

SpecFrame == Init /\ [][NextFrame]_vars

(***************************************************************************)
(* Vocabulary of the properties.                                           *)
(***************************************************************************)
\* the most recent call was an execute that returned
Executed == ret.kind = "execute"

\* the most recent call was an execute that got past its assertion
Stepped == Executed \/ (ret.kind = "raise" /\ ret.exc = "TypeError")

\* the startups that lie in the window that ends at the current timestep
InWindow ==
    {i \in DOMAIN off_to_on :
        /\ off_to_on[i] <= timestep
        /\ timestep <= off_to_on[i] + window_toggle_ons(variant)}

\* the dead-band reward of the current temperature
DeadBand ==
    LET away == IF current_temp >= Half THEN current_temp - Half
                ELSE Half - current_temp
    IN IF away < Tenth
       THEN (IF variant = "V3" THEN 10 * Tenth ELSE 0)
       ELSE Tenth - away

\* the episode is driven by the loop: it began with reset() (which is what
\* makes current_temp an array in V2 and V3; in V1 construction leaves the
\* same state as reset()) and no execute call followed terminal = True
LoopDriven == ~overrun /\ (variant = "V1" \/ temp_is_array)

(***************************************************************************)
(* C1. V2, hard cutoff: an execute call that leaves more than              *)
(* max_toggle_ons startups in the window returns terminal = True and the   *)
(* reward -50.0, whatever the dead-band reward is and whether or not the   *)
(* timestep limit is exceeded on the same step.                            *)
(***************************************************************************)
C1_HardCutoff ==
    (variant = "V2" /\ Stepped /\ Cardinality(InWindow) > 3)
        => (Executed /\ ret.terminal = TRUE /\ ret.reward = -50 * Scale)

\* the cutoff fires on the step that also exceeds the timestep limit, at a
\* temperature whose dead-band reward is not the penalty
C1_Witness ==
    /\ variant = "V2" /\ Executed
    /\ Cardinality(InWindow) > 3
    /\ timestep > 200
    /\ DeadBand # -50 * Scale
    /\ ret.terminal /\ ret.reward = -50 * Scale

(***************************************************************************)
(* C2. V3, soft budget: an execute call that leaves toggle_ons_left        *)
(* negative returns terminal = False, the reward -10.0 instead of the      *)
(* dead-band reward, and an observation whose second component is the      *)
(* negative toggle_ons_left.                                               *)
(***************************************************************************)
C2_SoftPenalty ==
    (variant = "V3" /\ Stepped /\ toggle_ons_left < 0)
        => /\ Executed
           /\ ret.terminal = FALSE
           /\ ret.reward = -10 * Scale
           /\ ret.obs_left = toggle_ons_left
           /\ ret.obs_left = 3 - Cardinality(InWindow)

\* the notebook's test: startups at 1, 3, 5, 7 and the budget at -1
C2_Witness ==
    /\ variant = "V3" /\ Executed
    /\ off_to_on = <<1, 3, 5, 7>> /\ timestep = 7
    /\ toggle_ons_left = -1 /\ ret.obs_left = -1
    /\ ~ret.terminal /\ ret.reward = -10 * Scale
    /\ DeadBand # ret.reward

(***************************************************************************)
(* C3. V3: every execute call of an episode begun by reset() that returns  *)
(* with timestep > max_timestep (100) returns terminal = True, also when   *)
(* the toggle budget is negative.                                          *)
(***************************************************************************)
C3_LimitAlwaysTerminal ==
    (variant = "V3" /\ temp_is_array /\ Executed /\ timestep > 100)
        => ret.terminal = TRUE

(***************************************************************************)
(* C4. V3: an episode driven by the loop (reset, then execute until        *)
(* terminal = True) has returned terminal = True by its                    *)
(* (max_timestep + 1)-th execute call.                                     *)
(***************************************************************************)
C4_EpisodeEndsV3 ==
    (variant = "V3" /\ LoopDriven /\ timestep >= 100 + 1)
        => terminal = TRUE

(***************************************************************************)
(* C5. Driven by the loop, a V1 episode ends after exactly 6 execute      *)
(* calls and a V2 episode after at most 201.                               *)
(***************************************************************************)
C5_EpisodeEndsV1V2 ==
    /\ (variant = "V1" /\ LoopDriven)
          => (timestep <= 6 /\ (terminal <=> timestep = 6))
    /\ (variant = "V2" /\ LoopDriven)
          => (timestep <= 201 /\ (timestep = 201 => terminal))

\* a V2 episode that the timestep limit ends, on its 201st call
C5_Witness ==
    /\ variant = "V2" /\ LoopDriven /\ Executed
    /\ timestep = 201 /\ terminal
    /\ Cardinality(InWindow) <= 3

\* a V1 episode ended by its 6th call
C5_WitnessV1 ==
    variant = "V1" /\ LoopDriven /\ Executed /\ timestep = 6 /\ terminal

(***************************************************************************)
(* C6. In every variant, in an episode driven by the loop, timestep stays  *)
(* within 0 .. max_timestep + 1.                                           *)
(***************************************************************************)
C6_TimestepRange ==
    LoopDriven =>
        (0 <= timestep /\ timestep <= max_episode_timesteps(variant) + 1)

(***************************************************************************)
(* C7. V2: once an execute call has returned terminal = True, every later  *)
(* execute call without a reset in between returns terminal = True too.    *)
(***************************************************************************)
C7_TerminalAbsorbing ==
    [][(variant = "V2" /\ terminal /\ timestep' = timestep + 1) => terminal']_vars

(***************************************************************************)
(* C8. V2 and V3, window inclusivity: the window count of an execute call  *)
(* counts exactly the startups recorded at timesteps t with                *)
(* t <= timestep <= t + window_toggle_ons; a startup is no longer counted  *)
(* from timestep t + window_toggle_ons + 1 on.                             *)
(***************************************************************************)
C8_WindowInclusive ==
    (variant \in {"V2", "V3"} /\ Stepped)
        => /\ ret.count = Cardinality(InWindow)
           /\ \A i \in DOMAIN off_to_on :
                 timestep >= off_to_on[i] + window_toggle_ons(variant) + 1
                     => ret.count <= Len(off_to_on) - i

\* the last step on which the only startup is counted
C8_Witness ==
    /\ variant \in {"V2", "V3"} /\ Executed
    /\ Len(off_to_on) = 1
    /\ timestep = off_to_on[1] + window_toggle_ons(variant)
    /\ ret.count = 1

\* the first step on which it is not
C8_WitnessOut ==
    /\ variant \in {"V2", "V3"} /\ Executed
    /\ Len(off_to_on) = 1
    /\ timestep = off_to_on[1] + window_toggle_ons(variant) + 1
    /\ ret.count = 0

(***************************************************************************)
(* C9. V1, episode length boundary: execute returns terminal = True        *)
(* exactly when the incremented timestep is greater than 5, so the calls   *)
(* 1..5 of an episode return False and the 6th returns True.               *)
(***************************************************************************)
C9_LengthBoundaryV1 ==
    (variant = "V1" /\ Executed) => (ret.terminal <=> timestep > 5)

\* the 6th call of an episode, with the heater on throughout as in the notebook
C9_Witness ==
    /\ variant = "V1" /\ Executed /\ LoopDriven
    /\ timestep = 6 /\ ret.terminal
    /\ current_temp > Half

(***************************************************************************)
(* C10. V2: execute returns terminal = True if and only if the window      *)
(* count exceeds max_toggle_ons or the incremented timestep exceeds 200;   *)
(* otherwise it returns terminal = False with the dead-band reward.        *)
(***************************************************************************)
C10_TerminalIffV2 ==
    (variant = "V2" /\ Executed)
        => LET over == Cardinality(InWindow) > 3
               late == timestep > 200
           IN /\ ret.terminal <=> (over \/ late)
              /\ ~(over \/ late) => (~ret.terminal /\ ret.reward = DeadBand)

\* three startups in the window, one step before the limit: not terminal
C10_Witness ==
    /\ variant = "V2" /\ Executed
    /\ Cardinality(InWindow) = 3 /\ timestep = 200
    /\ ~ret.terminal /\ ret.reward = DeadBand

C11_WitnessLimit ==
    variant = "V3" /\ Executed /\ timestep = 101 /\ ret.terminal

(***************************************************************************)
(* C12. In every variant an execute call with an action outside {0, 1}     *)
(* fails on the assertion before any mutation: timestep, current_temp,     *)
(* last_heater_state, the startup history and toggle_ons_left are what     *)
(* they were before the call.                                              *)
(***************************************************************************)
C12_InvalidActionNoMutation ==
    [][(ret'.kind = "raise" /\ ret'.exc = "AssertionError")
          => /\ timestep' = timestep
             /\ current_temp' = current_temp
             /\ temp_is_array' = temp_is_array
             /\ last_heater_state' = last_heater_state
             /\ off_to_on' = off_to_on
             /\ toggle_ons_left' = toggle_ons_left]_vars

\* a rejected call in the middle of a V3 episode with startups on record
C12_Witness ==
    /\ ret.kind = "raise" /\ ret.exc = "AssertionError"
    /\ variant = "V3"
    /\ timestep > 0 /\ off_to_on # <<>> /\ last_heater_state = 1
    /\ toggle_ons_left < 3 /\ current_temp > 0

(***************************************************************************)
(* C13. From any reachable state reset() leaves timestep = 0 and, in V2    *)
(* and V3, last_heater_state = 0 and an empty startup history; in V3 it    *)
(* also leaves toggle_ons_left = max_toggle_ons and returns an observation *)
(* that carries this full budget.                                          *)
(***************************************************************************)
C13_ResetState ==
    ret.kind = "reset"
        => /\ timestep = 0
           /\ variant \in {"V2", "V3"}
                 => (last_heater_state = 0 /\ off_to_on = <<>>)
           /\ variant = "V3"
                 => (toggle_ons_left = 3 /\ ret.obs_left = 3)

\* V3 just after a reset that sampled a temperature above 0
C13_Witness ==
    /\ ret.kind = "reset" /\ variant = "V3"
    /\ timestep = 0 /\ toggle_ons_left = 3 /\ ret.obs_left = 3
    /\ current_temp > 0

(***************************************************************************)
(* C14. No carry-over across reset (V2, V3): the state reset() leaves, and *)
(* what it returns, depend on nothing but the sampled temperature, so      *)
(* whatever happened before the reset, equal temperatures and equal        *)
(* actions afterwards give equal terminal flags, window counts, budgets    *)
(* and rewards, and a second reset in a row leaves the state of the first  *)
(* apart from the sampled temperature.                                     *)
(***************************************************************************)
C14_NoCarryOver ==
    (variant \in {"V2", "V3"} /\ ret.kind = "reset")
        => LET full == IF variant = "V3" THEN 3 ELSE 0
           IN /\ <<timestep, last_heater_state, off_to_on, temp_is_array,
                   toggle_ons_left, terminal, overrun>>
                    = <<0, 0, <<>>, TRUE, full, FALSE, FALSE>>
              /\ ret = [kind |-> "reset", exc |-> "", obs_temp |-> current_temp,
                        obs_left |-> full, terminal |-> FALSE, reward |-> 0,
                        count |-> 0]

\* V2 just after a reset
C14_Witness ==
    /\ ret.kind = "reset" /\ variant = "V2"
    /\ last_heater_state = 0 /\ off_to_on = <<>> /\ ~terminal
    /\ current_temp > 0

(***************************************************************************)
(* C15. In every variant the temperature that reset() returns is the       *)
(* environment's current temperature, the value from which the first       *)
(* execute after the reset computes its response.                          *)
(***************************************************************************)
C15_ResetReturnsCurrentTemp ==
    ret.kind = "reset" => ret.obs_temp = current_temp

(***************************************************************************)
(* C16. V3: after construction, after every reset() and after every        *)
(* execute that got past its assertion, toggle_ons_left is max_toggle_ons  *)
(* minus the number of startups e with timestep - e <= window_toggle_ons,  *)
(* and the second component of the observation the call returned is that   *)
(* same value.                                                             *)
(***************************************************************************)
C16_BudgetIsDerived ==
    variant = "V3"
        => /\ toggle_ons_left
                = 3 - Cardinality({i \in DOMAIN off_to_on :
                                      timestep - off_to_on[i] <= 10})
           /\ ret.kind \in {"reset", "execute"}
                 => ret.obs_left = toggle_ons_left

\* the first of two startups has just left the window, the second is in it
C16_Witness ==
    /\ variant = "V3" /\ Executed
    /\ Len(off_to_on) = 2
    /\ timestep = off_to_on[1] + 11
    /\ timestep <= off_to_on[2] + 10
    /\ toggle_ons_left = 2 /\ ret.obs_left = 2

(***************************************************************************)
(* C17. V2 and V3: in every reachable state the startup history is         *)
(* strictly increasing and every entry e satisfies 1 <= e <= timestep.     *)
(***************************************************************************)
C17_HistoryOrdered ==
    variant \in {"V2", "V3"}
        => /\ \A i \in DOMAIN off_to_on :
                 1 <= off_to_on[i] /\ off_to_on[i] <= timestep
           /\ \A i, j \in DOMAIN off_to_on :
                 i < j => off_to_on[i] < off_to_on[j]

\* four startups, the first at timestep 1 and the last on the current step
C17_Witness ==
    /\ variant \in {"V2", "V3"}
    /\ Len(off_to_on) = 4
    /\ off_to_on[1] = 1 /\ off_to_on[4] = timestep

\* the step from the current state to the next one had action 1: the
\* temperature rose, or stayed at 1.0
HeatedStep ==
    \/ current_temp' > current_temp
    \/ (current_temp' = current_temp /\ current_temp = Scale)

(***************************************************************************)
(* C18. V2 and V3: an execute that gets past its assertion appends the     *)
(* incremented timestep to the startup history if and only if the action   *)
(* is 1 and last_heater_state was 0 before the call; otherwise it leaves   *)
(* the history as it was.                                                  *)
(***************************************************************************)
C18_AppendIffOffToOn ==
    [][(variant \in {"V2", "V3"} /\ timestep' = timestep + 1)
          => off_to_on' = IF HeatedStep /\ last_heater_state = 0
                          THEN off_to_on \o <<timestep + 1>>
                          ELSE off_to_on]_vars

\* action 1 with the heater already on: the second step adds no startup
C18_Witness ==
    /\ variant \in {"V2", "V3"} /\ Executed
    /\ timestep = 2 /\ last_heater_state = 1
    /\ off_to_on = <<1>>

(***************************************************************************)
(* C19. V2 and V3: last_heater_state is always 0 or 1 and is the action of *)
(* the most recent successful execute since the last reset, 0 if there has *)
(* been none: reset sets it to 0, an execute that returns sets it to its   *)
(* action, and a call that fails leaves it as it was.                      *)
(***************************************************************************)
C19_HeaterStateIsLastAction ==
    [][(variant \in {"V2", "V3"})
          => (/\ last_heater_state' \in {0, 1}
              /\ (ret'.kind = "reset" => last_heater_state' = 0)
              /\ ((ret'.kind = "execute" /\ timestep' = timestep + 1)
                    => last_heater_state' = (IF HeatedStep THEN 1 ELSE 0))
              /\ (ret'.kind = "raise"
                    => last_heater_state' = last_heater_state))]_vars

(***************************************************************************)
(* C20: on a step without constraint violation the reward is the in-band   *)
(* value (0 in V1 and V2, 1.0 in V3) when the updated temperature is less  *)
(* than 0.1 away from 0.5, and 0.1 minus that distance otherwise; at a     *)
(* distance of exactly 0.1 the outside branch applies and the reward is 0. *)
(***************************************************************************)
C20_NoViolation ==
    CASE variant = "V1" -> TRUE
      [] variant = "V2" -> Cardinality(InWindow) <= max_toggle_ons("V2")
      [] variant = "V3" -> toggle_ons_left >= 0

C20_DeadBandOfReturnedReward ==
    (Executed /\ C20_NoViolation)
        => LET T == current_temp
               dist == IF T >= Half THEN T - Half ELSE Half - T
           IN /\ dist < Tenth  => ret.reward = (IF variant = "V3" THEN Scale ELSE 0)
              /\ dist >= Tenth => ret.reward = Tenth - dist
              /\ dist = Tenth  => ret.reward = 0

\* C20 over every step that got past the assertion on the action: the step
\* returns, and what it returns is the dead-band reward of the updated
\* temperature
C20_DeadBandReward ==
    (Stepped /\ C20_NoViolation)
        => /\ Executed
           /\ C20_DeadBandOfReturnedReward

C22_StepAction(a) ==
    /\ a \in Actions
    /\ variant \in {"V2", "V3"} => a = last_heater_state'

C22_IsStep == timestep' = timestep + 1

C23_Attributes(i) ==
    <<i.timestep, i.current_temp, i.temp_is_array, i.last_heater_state,
      i.off_to_on, i.toggle_ons_left>>

C23_InstancesIndependent ==
    [][\/ C23_Attributes(peer') = C23_Attributes(peer)
       \/ /\ C23_Attributes(peer') = C23_Attributes(Self)
          /\ C23_Attributes(Self') = C23_Attributes(peer)]_vars

\* both instances are in mid-episode, with different histories
C23_Witness ==
    /\ variant = "V3"
    /\ Executed
    /\ timestep = 3
    /\ off_to_on = <<1, 3>>
    /\ toggle_ons_left = 1
    /\ peer.ret.kind = "execute"
    /\ peer.timestep = 2
    /\ peer.off_to_on = <<2>>
    /\ peer.toggle_ons_left = 2
    /\ peer.current_temp /= current_temp

(***************************************************************************)
(* C25. Bounded-window equivalence (V2, V3): a tracker that evicts every   *)
(* startup older than window_toggle_ons steps holds exactly the startups   *)
(* the unbounded list has in the window, so the count, the terminal flag,  *)
(* the budget and the reward computed from it are those the call gave; and *)
(* a startup that has left the window does not come back into it before    *)
(* the next reset.                                                         *)
(***************************************************************************)
C25_Counted(e, ts) == ts - e <= window_toggle_ons(variant)

C25_TrackerAgrees ==
    variant \in {"V2", "V3"} =>
        /\ tracker = SelectSeq(off_to_on, LAMBDA e : C25_Counted(e, timestep))
        /\ Stepped => ret.count = Len(tracker)
        /\ (variant = "V3" /\ Stepped)
              => toggle_ons_left = max_toggle_ons("V3") - Len(tracker)
        /\ (variant = "V2" /\ Executed)
              => ret = returns_V2(Len(tracker), timestep, current_temp)
        /\ (variant = "V3" /\ Executed)
              => ret = returns_V3(max_toggle_ons("V3") - Len(tracker),
                                  Len(tracker), timestep, current_temp, TRUE)

C25_BoundedWindowEquivalent ==
    [][/\ C25_TrackerAgrees'
       /\ (variant \in {"V2", "V3"} /\ ret'.kind # "reset")
             => \A i \in DOMAIN off_to_on :
                   C25_Counted(off_to_on[i], timestep')
                       => C25_Counted(off_to_on[i], timestep)]_vars

\* the oldest of two startups has been evicted
C25_Witness ==
    /\ variant = "V3"
    /\ Executed
    /\ Len(off_to_on) = 2
    /\ tracker = <<off_to_on[2]>>
    /\ timestep > off_to_on[1] + window_toggle_ons("V3")
    /\ ret.count = 1
    /\ toggle_ons_left = 2

(***************************************************************************)
(* C26. V1: terminal is monotone within an episode.  Once an execute call  *)
(* has returned terminal = True, every later execute call without a reset  *)
(* returns terminal = True as well, and timestep goes on increasing past   *)
(* max_episode_timesteps + 1.                                              *)
(***************************************************************************)
C26_TerminalMonotoneV1 ==
    [][(variant = "V1" /\ terminal /\ ret'.kind = "execute")
          => /\ ret'.terminal = TRUE
             /\ terminal'
             /\ timestep' = timestep + 1
             /\ timestep' > max_episode_timesteps("V1") + 1]_vars

\* the second execute call after the one that returned terminal = True
C26_Witness ==
    /\ variant = "V1"
    /\ overrun
    /\ Executed
    /\ ret.terminal = TRUE
    /\ timestep = max_episode_timesteps("V1") + 3

(***************************************************************************)
(* C27. V2 and V3: the window count rises only on an off->on step, and by  *)
(* one; so a step that takes the count from at most max_toggle_ons to more *)
(* is an off->on step (action 1 after heater state 0) that leaves the      *)
(* count at max_toggle_ons + 1, and with max_toggle_ons = 3 the count is   *)
(* not above it before timestep 7.                                         *)
(***************************************************************************)
C27_Count == Cardinality(InWindow)

C27_CountRisesOnStartupOnly ==
    [][(variant \in {"V2", "V3"} /\ timestep' = timestep + 1)
          => /\ C27_Count' > C27_Count
                  => /\ HeatedStep
                     /\ last_heater_state = 0
                     /\ C27_Count' = C27_Count + 1
             /\ (C27_Count <= max_toggle_ons(variant)
                   /\ C27_Count' > max_toggle_ons(variant))
                  => /\ HeatedStep
                     /\ last_heater_state = 0
                     /\ C27_Count' = max_toggle_ons(variant) + 1
                     /\ ret'.count = max_toggle_ons(variant) + 1
             /\ C27_Count' > 3 => timestep' >= 7]_vars

\* the earliest violation: startups at 1, 3, 5 and 7
C27_Witness ==
    /\ variant = "V3"
    /\ Executed
    /\ timestep = 7
    /\ last_heater_state = 1
    /\ off_to_on = <<1, 3, 5, 7>>
    /\ C27_Count = 4
    /\ ret.count = 4

(***************************************************************************)
(* C28. V3: once the budget is negative, a step that leaves more than      *)
(* max_toggle_ons startups in the window returns the penalty reward and    *)
(* terminal = False, whether or not it adds a startup.  When no startup    *)
(* follows the violation, max_toggle_ons + 1 startups are counted; the     *)
(* first step on which the oldest of them is more than window_toggle_ons   *)
(* steps old makes the budget 0 again and returns the dead-band reward.    *)
(***************************************************************************)
\* the oldest startup that is counted before the step is not counted after it
C28_OldestLeaves ==
    \E i \in InWindow :
        /\ \A j \in InWindow : i <= j
        /\ timestep' - off_to_on[i] > window_toggle_ons(variant)

C28_PenaltyHolds ==
    (toggle_ons_left < 0 /\ C27_Count' > max_toggle_ons("V3"))
        => /\ toggle_ons_left' < 0
           /\ ret'.kind = "execute"
           /\ ret'.reward = exceed_toggle_on_reward("V3")
           /\ ret'.terminal = FALSE

C28_BudgetRecovers ==
    (/\ toggle_ons_left < 0
     /\ C27_Count = max_toggle_ons("V3") + 1
     /\ off_to_on' = off_to_on)
        => /\ ~C28_OldestLeaves => toggle_ons_left' = -1
           /\ C28_OldestLeaves => toggle_ons_left' = 0

C28_PenaltyPersists ==
    [][(variant = "V3" /\ timestep' = timestep + 1)
          => /\ C28_PenaltyHolds
             /\ C28_BudgetRecovers
             /\ (toggle_ons_left < 0 /\ toggle_ons_left' >= 0)
                   => /\ ret'.kind = "execute"
                      /\ ret'.reward = DeadBand']_vars

\* C28 in episodes that reset() began
C28_PenaltyPersistsAfterReset ==
    [][(variant = "V3" /\ timestep' = timestep + 1 /\ temp_is_array)
          => /\ C28_PenaltyHolds
             /\ C28_BudgetRecovers
             /\ (toggle_ons_left < 0 /\ toggle_ons_left' >= 0)
                   => /\ ret'.kind = "execute"
                      /\ ret'.reward = DeadBand']_vars

C30_Added == HeatedStep /\ last_heater_state = 0

\* a startup counted before the step is not counted after it
C30_Leaves ==
    \E i \in InWindow : timestep' - off_to_on[i] > window_toggle_ons(variant)

C30_Change ==
    LET d == toggle_ons_left' - states[2]
    IN /\ d \in {-1, 0, 1}
       /\ (C30_Added /\ ~C30_Leaves) => d = -1
       /\ (C30_Leaves /\ ~C30_Added) => d = 1
       /\ (C30_Added <=> C30_Leaves) => d = 0

C30_BudgetSteps ==
    [][(/\ variant = "V3"
        /\ timestep' = timestep + 1
        /\ ret'.kind = "execute"
        /\ states # NoStates)
          => C30_Change]_vars

\* C30 in episodes that reset() began
C30_BudgetStepsAfterReset ==
    [][(/\ variant = "V3"
        /\ timestep' = timestep + 1
        /\ ret'.kind = "execute"
        /\ temp_is_array)
          => C30_Change]_vars

(***************************************************************************)
(* C31. In every variant timestep counts the successful execute calls      *)
(* since the last reset or the construction: an execute that returns adds  *)
(* exactly 1, an execute that fails leaves it as it was, and reset sets it *)
(* to 0.                                                                   *)
(***************************************************************************)
C31_Counts ==
    /\ ret'.kind = "execute" => timestep' = timestep + 1
    /\ ret'.kind = "raise" => timestep' = timestep
    /\ ret'.kind = "reset" => timestep' = 0

C31_TimestepCountsExecutes == [][C31_Counts]_vars

\* C31 for V1, V2, and V3 once reset() has been called
C31_TimestepCountsExecutesAfterReset ==
    [][(variant # "V3" \/ temp_is_array) => C31_Counts]_vars

(***************************************************************************)
(* C32. V2 and V3: reset sets last_heater_state to 0 whatever the last     *)
(* action before it was, so the first execute after a reset, when its      *)
(* action is 1, records a startup at timestep 1; and that first execute is *)
(* never terminal and never penalised.                                     *)
(***************************************************************************)
C32_FirstExecuteAfterReset ==
    [][(variant \in {"V2", "V3"}) =>
         (/\ (ret'.kind = "reset")
                => (last_heater_state' = 0 /\ off_to_on' = <<>>)
          /\ (temp_is_array /\ timestep = 0 /\ timestep' = 1)
                => (/\ off_to_on' = (IF HeatedStep THEN <<1>> ELSE <<>>)
                    /\ ret'.kind = "execute"
                    /\ ret'.terminal = FALSE
                    /\ ret'.reward # exceed_toggle_on_reward(variant)
                    /\ ret'.reward = DeadBand'))]_vars

\* execute(1) right after a reset has recorded its startup
C32_Witness ==
    /\ variant = "V2"
    /\ temp_is_array
    /\ Executed
    /\ timestep = 1
    /\ last_heater_state = 1
    /\ off_to_on = <<1>>
    /\ ret.count = 1
    /\ ret.terminal = FALSE

(***************************************************************************)
(* C33. A freshly constructed environment is in the discrete state of one  *)
(* that has just been reset (timestep 0, last_heater_state 0, no startups, *)
(* full budget), and what an execute call yields of terminal flag, window  *)
(* count and budget is fixed by that discrete state and the action, so a   *)
(* sequence of calls yields the same ones with or without a reset before   *)
(* it.                                                                     *)
(***************************************************************************)
\* no execute has been called since the construction or the reset
C33_Ready ==
    (ret.kind \in {"none", "reset"})
        => /\ timestep = 0
           /\ last_heater_state = 0
           /\ off_to_on = <<>>
           /\ variant = "V3" => toggle_ons_left = max_toggle_ons("V3")

\* the call yields the flag, count and budget that follow from the discrete
\* state, whether or not reset() has made current_temp an array
C33_Yields ==
    /\ ret'.kind = "execute"
    /\ ret'.count = (IF variant = "V1" THEN 0 ELSE C27_Count')
    /\ ret'.obs_left = (IF variant = "V3"
                        THEN max_toggle_ons("V3") - C27_Count' ELSE 0)
    /\ ret'.terminal =
          CASE variant = "V1" -> timestep' > max_episode_timesteps("V1")
            [] variant = "V2" -> \/ C27_Count' > max_toggle_ons("V2")
                                 \/ timestep' > max_episode_timesteps("V2")
            [] variant = "V3" -> /\ C27_Count' <= max_toggle_ons("V3")
                                 /\ timestep' > max_episode_timesteps("V3")

C33_ConstructionIsReset ==
    [][C33_Ready' /\ (timestep' = timestep + 1 => C33_Yields)]_vars

\* C33 for V1, V2, and V3 once reset() has been called
C33_ConstructionIsResetV1V2 ==
    [][(variant # "V3" \/ temp_is_array)
          => (C33_Ready' /\ (timestep' = timestep + 1 => C33_Yields))]_vars

(***************************************************************************)
(* C34. In every variant an execute(action) that starts with the           *)
(* temperature in [0, 1] leaves it in [0, 1], between the previous         *)
(* temperature and the action value; reset puts it in [0, 1), so it stays  *)
(* in [0, 1] for the whole episode.                                        *)
(***************************************************************************)
C34_Between(lo, x, hi) == (lo <= x /\ x <= hi) \/ (hi <= x /\ x <= lo)

C34_TemperatureInRange ==
    [][/\ current_temp' \in 0 .. Scale
       /\ (ret'.kind = "reset") => current_temp' < Scale
       /\ (timestep' = timestep + 1 /\ current_temp \in 0 .. Scale)
             => \E a \in Actions :
                   /\ C22_StepAction(a)
                   /\ C34_Between(current_temp, current_temp', a * Scale)]_vars

\* heated once from a reset, then left to cool
C34_Witness ==
    /\ variant = "V2"
    /\ temp_is_array
    /\ Executed
    /\ timestep = 2
    /\ off_to_on = <<1>>
    /\ last_heater_state = 0
    /\ current_temp > 0
    /\ current_temp < Scale

C36_Config(v) ==
    <<tau, max_episode_timesteps(v), max_toggle_ons(v), window_toggle_ons(v),
      exceed_toggle_on_reward(v)>>

\* the fields of the instance
C36_Fields ==
    <<current_temp, temp_is_array, timestep, last_heater_state, off_to_on,
      toggle_ons_left>>

C36_Frame ==
    [][/\ C36_Config(variant') = C36_Config(variant)
       /\ (timestep' = timestep + 1 /\ ~HeatedStep) => off_to_on' = off_to_on
       /\ (ret'.kind \in {"query", "query_raise"}) => C36_Fields' = C36_Fields]_vars

\* execute(0) after a startup, then a call of max_episode_timesteps()
C36_Witness ==
    /\ variant = "V3"
    /\ ret.kind = "query"
    /\ ret.obs_temp = max_episode_timesteps("V3")
    /\ timestep = 2
    /\ last_heater_state = 0
    /\ off_to_on = <<1>>

(***************************************************************************)
(* C37. Determinism.  What execute returns (observation, terminal, reward, *)
(* or the exception it raises) and the state it leaves are a function of   *)
(* the variant, the temperature (its value and whether it is a float or an *)
(* array), the timestep, last_heater_state, the startup history and the    *)
(* action: nothing else the environment or the loop holds (the budget of   *)
(* the last call, the last return, the terminal flag seen) has a say.      *)
(***************************************************************************)
\* the outcome of execute(a) as a function of the state and the action
C37_Outcome(v, temp, is_array, ts, last, hist, a) ==
    LET ts1   == ts + 1
        temp1 == response(a, temp)
        hist1 == IF v = "V1" THEN hist ELSE record_startup(hist, a, last, ts1)
        last1 == IF v = "V1" THEN last ELSE a
        cnt   == Len(lstWindowEvents(hist1, ts1, window_toggle_ons(v)))
        left  == max_toggle_ons(v) - cnt
    IN [current_temp |-> temp1, temp_is_array |-> is_array, timestep |-> ts1,
        last_heater_state |-> last1, off_to_on |-> hist1,
        ret |-> CASE v = "V1" -> returns_V1(ts1, temp1)
                  [] v = "V2" -> returns_V2(cnt, ts1, temp1)
                  [] v = "V3" -> returns_V3(left, cnt, ts1, temp1, is_array)]

\* what an execute left behind
C37_Left ==
    [current_temp |-> current_temp, temp_is_array |-> temp_is_array,
     timestep |-> timestep, last_heater_state |-> last_heater_state,
     off_to_on |-> off_to_on, ret |-> ret]

====
